---------------------------- MODULE Spec2Model ----------------------------
(***************************************************************************)
(* Product route app/routes/products/$handle.tsx: the add-to-cart action   *)
(* (cart session transaction) and the ProductForm option selection logic.  *)
(*                                                                         *)
(* Text is modelled as a sequence of tokens.  A token is either one of the *)
(* reserved characters " ", "+", "&", "=", "%", "?", "/" or a maximal run  *)
(* of unreserved characters ("Color", "V1", "2B").                         *)
(***************************************************************************)
EXTENDS Integers, Sequences, FiniteSets, TLC

(***************************************************************************)
(* Bounds of the model.                                                    *)
(***************************************************************************)
MaxReq == 3

Requests == 1..MaxReq

(***************************************************************************)
(* JavaScript values.                                                      *)
(***************************************************************************)
\* null / undefined where a string is expected (URLSearchParams.get miss)
Null == <<"<null>">>

\* the value session.get returns for an absent key
Undefined == 0

\* mutant of Truthy: only a missing value is rejected
TruthyNotNull(v) == v # Null

\* JavaScript truthiness of a string-or-null value
Truthy(v) == v # Null /\ v # <<>>

(***************************************************************************)
(* application/x-www-form-urlencoded, as URLSearchParams implements it.    *)
(***************************************************************************)
\* percent escapes the serializer emits for the reserved characters
EscapeOf ==
  [c \in {"+", "&", "=", "%", "?", "/"} |->
     CASE c = "+" -> "2B" [] c = "&" -> "26" [] c = "=" -> "3D"
       [] c = "%" -> "25" [] c = "?" -> "3F" [] c = "/" -> "2F"]

\* the character a two-digit hex run decodes to
HexCode ==
  [h \in {"20", "25", "26", "2B", "2F", "3D", "3F"} |->
     CASE h = "20" -> " " [] h = "25" -> "%" [] h = "26" -> "&"
       [] h = "2B" -> "+" [] h = "2F" -> "/" [] h = "3D" -> "=" [] h = "3F" -> "?"]

\* mutant of EncodeStr: reserved characters are written as they are
EncodeStrRaw(s) == s

RECURSIVE EncodeStr(_)
EncodeStr(s) ==
  IF s = <<>> THEN <<>>
  ELSE LET c == Head(s)
           e == IF c = " " THEN <<"+">>
                ELSE IF c \in DOMAIN EscapeOf THEN <<"%", EscapeOf[c]>>
                ELSE <<c>>
       IN  e \o EncodeStr(Tail(s))

RECURSIVE PercentDecode(_)
PercentDecode(s) ==
  IF s = <<>> THEN <<>>
  ELSE IF Head(s) = "%" /\ Len(s) >= 2 /\ s[2] \in DOMAIN HexCode
       THEN <<HexCode[s[2]]>> \o PercentDecode(Tail(Tail(s)))
       ELSE <<Head(s)>> \o PercentDecode(Tail(s))

PlusToSpace(s) == [i \in 1..Len(s) |-> IF s[i] = "+" THEN " " ELSE s[i]]

DecodeStr(s) == PercentDecode(PlusToSpace(s))

\* index of the first occurrence of token c in s, 0 when there is none
RECURSIVE IndexOf(_, _, _)
IndexOf(s, c, i) ==
  IF i > Len(s) THEN 0 ELSE IF s[i] = c THEN i ELSE IndexOf(s, c, i + 1)

\* s.split(c)
RECURSIVE Split(_, _)
Split(s, c) ==
  LET i == IndexOf(s, c, 1)
  IN  IF i = 0 THEN <<s>>
      ELSE <<SubSeq(s, 1, i - 1)>> \o Split(SubSeq(s, i + 1, Len(s)), c)

\* one "name=value" piece of a query
ParsePair(piece) ==
  LET i == IndexOf(piece, "=", 1)
  IN  IF i = 0 THEN <<DecodeStr(piece), <<>>>>
      ELSE <<DecodeStr(SubSeq(piece, 1, i - 1)),
             DecodeStr(SubSeq(piece, i + 1, Len(piece)))>>

RECURSIVE ParsePieces(_)
ParsePieces(pieces) ==
  IF pieces = <<>> THEN <<>>
  ELSE IF Head(pieces) = <<>> THEN ParsePieces(Tail(pieces))
       ELSE <<ParsePair(Head(pieces))>> \o ParsePieces(Tail(pieces))

\* new URLSearchParams(string): a list of <<name, value>> pairs
USPParse(str) ==
  LET q == IF str # <<>> /\ Head(str) = "?" THEN Tail(str) ELSE str
  IN  ParsePieces(Split(q, "&"))

\* URLSearchParams.prototype.toString
RECURSIVE USPToString(_)
USPToString(list) ==
  IF list = <<>> THEN <<>>
  ELSE LET p == Head(list)
           one == EncodeStr(p[1]) \o <<"=">> \o EncodeStr(p[2])
       IN  IF Len(list) = 1 THEN one
           ELSE one \o <<"&">> \o USPToString(Tail(list))

USPHas(list, name) == \E i \in 1..Len(list) : list[i][1] = name

USPGet(list, name) ==
  IF USPHas(list, name)
  THEN list[CHOOSE i \in 1..Len(list) :
              /\ list[i][1] = name
              /\ \A j \in 1..(i - 1) : list[j][1] # name][2]
  ELSE Null

USPGetAll(list, name) ==
  LET RECURSIVE Vals(_)
      Vals(l) == IF l = <<>> THEN <<>>
                 ELSE IF Head(l)[1] = name THEN <<Head(l)[2]>> \o Vals(Tail(l))
                 ELSE Vals(Tail(l))
  IN  Vals(list)

\* URLSearchParams.prototype.set: the first pair named `name` takes the value
\* and the other pairs of that name are removed; appended when there is none
USPSet(list, name, value) ==
  IF ~USPHas(list, name) THEN Append(list, <<name, value>>)
  ELSE LET first == CHOOSE i \in 1..Len(list) :
                      /\ list[i][1] = name
                      /\ \A j \in 1..(i - 1) : list[j][1] # name
           RECURSIVE Rest(_, _)
           Rest(l, i) ==
             IF l = <<>> THEN <<>>
             ELSE IF i = first THEN <<<<name, value>>>> \o Rest(Tail(l), i + 1)
             ELSE IF Head(l)[1] = name THEN Rest(Tail(l), i + 1)
             ELSE <<Head(l)>> \o Rest(Tail(l), i + 1)
       IN  Rest(list, 1)

USPKeys(list) == {list[i][1] : i \in 1..Len(list)}


(***************************************************************************)
(* Session store (~/lib/session.server) and commerce source (~/data).      *)
(* Session data is a set of <<key, value>> pairs with unique keys.         *)
(***************************************************************************)
\* the Cookie header of a browser that holds no session cookie
NoCookie == <<>>

\* getSession(request, context): the session data the request's cookie carries
getSession(cookieHeader) ==
  IF cookieHeader = NoCookie THEN {} ELSE cookieHeader[2]

\* session.get(key)
SessionGet(data, key) ==
  IF \E p \in data : p[1] = key
  THEN (CHOOSE p \in data : p[1] = key)[2]
  ELSE Undefined

\* session.set(key, value)
SessionSet(data, key, value) ==
  {p \in data : p[1] # key} \cup {<<key, value>>}

\* session.commit(): the Set-Cookie value that carries the session data
SessionCommit(data) == <<"session", data>>

\* the id createCart gives a new cart: fresh, never reused (carts is the
\* sequence of all carts ever created, a cart's id is its index)
NewCartId(carts) == Len(carts) + 1

\* createCart({cart: {lines}}): the commerce source with the new cart added
CommerceCreate(carts, lines) == Append(carts, lines)

\* addLineItem({cartId, lines}): the lines appended to the cart
CommerceAddLines(carts, cartId, lines) ==
  [carts EXCEPT ![cartId] = @ \o lines]

(***************************************************************************)
(* Inputs of the add-to-cart action.                                       *)
(***************************************************************************)
\* form bodies a POST may carry
Bodies ==
  { <<"variantId", "=">>,
    <<"variantId", "=", "V1">>,
    <<"variantId", "=", "V2">>,
    <<"quantity", "=", "2">> }

\* product handles of the route /products/$handle
Handles == {"snowboard", "hoodie", "hi-fi"}

\* the route parameters of app/routes/products/$handle.tsx
RouteParams(h) == {<<"handle", h>>}

\* params.<key> inside a template literal: a missing key prints "undefined"
ParamText(params, key) ==
  IF \E p \in params : p[1] = key
  THEN (CHOOSE p \in params : p[1] = key)[2]
  ELSE "undefined"

\* the path of the product page of handle h
ProductPath(h) == <<"/", "products", "/", h>>


(***************************************************************************)
(* State.                                                                  *)
(*   page    the handle of the product page the browser shows              *)
(*   cookie  the session cookie the browser holds                          *)
(*   act     one record per add-to-cart request: the request, the locals   *)
(*           of the running action and its response                        *)
(*   carts   the carts of the commerce source, each a sequence of lines    *)
(*   log     the mutation calls the commerce source received, in order     *)
(*   product     the product of the loader data the page renders            *)
(*   location    the committed URL: pathname and search, as text           *)
(*   transition  useTransition(): state, pending location, and what        *)
(*               started the navigation                                    *)
(*   mounted     ProductForm is on screen                                  *)
(*   heap        the URLSearchParams objects the render holds, by identity *)
(*   view        what the last render of ProductForm produced              *)
(***************************************************************************)
VARIABLES page, cookie, act, carts, log,
          product, productSelectedVariant, location, transition, mounted,
          heap, view, load

cartVars == <<page, cookie, act, carts, log>>

navVars ==
  <<product, productSelectedVariant, location, transition, mounted, heap, view>>

loadVars == <<load>>

vars == <<cartVars, navVars, loadVars>>

NoResponse == [status |-> 0, location |-> <<>>, headers |-> {}]

IdleAct ==
  [pc |-> "idle", body |-> <<>>, reqCookie |-> NoCookie, params |-> {},
   session |-> {}, variantId |-> Null, cartId |-> Undefined, headers |-> {},
   nSet |-> 0, nCommit |-> 0, error |-> "none", response |-> NoResponse]

\* the action has been entered and has neither returned nor thrown
Running(r) == act[r].pc \in {"reading", "session", "create", "update", "commit"}

(***************************************************************************)
(* The add-to-cart action, lines 61-100, one step per await.               *)
(***************************************************************************)
\* mutant of CartBranch: the cart id of the session is ignored
CartBranchAlwaysCreate(cartId) == "create"

\* line 79: which mutation the action issues for the cartId it read
CartBranch(cartId) == IF cartId = Undefined THEN "create" ELSE "update"

\* lines 81 and 91: the lines of the one submitted variant
LinesOf(variantId) == <<[merchandiseId |-> variantId]>>

\* mutant of SessionAfterCreate: the new cart's id is not stored
SessionNotSet(session, cartIdNew) == session

\* line 85: the session after the create branch stored the new cart's id
SessionAfterCreate(session, cartIdNew) == SessionSet(session, "cartId", cartIdNew)

\* mutant of HeadersAfterCreate: the committed session is not attached
HeadersNotCommitted(headers, session) == headers

\* mutant of HeadersAfterUpdate: the update branch commits the session too
HeadersAlwaysCommitted(headers, session) ==
  headers \cup {<<"Set-Cookie", SessionCommit(session)>>}

\* line 86: the headers of the create branch
HeadersAfterCreate(headers, session) ==
  {h \in headers : h[1] # "Set-Cookie"} \cup {<<"Set-Cookie", SessionCommit(session)>>}

\* lines 87-94: the update branch leaves the headers as constructed
HeadersAfterUpdate(headers, session) == headers

\* line 97: the redirect target
RedirectLocation(params) ==
  <<"/", "products", "/", ParamText(params, "productHandle")>>

\* lines 97-99: redirect(location, {headers})
Redirect(target, headers) ==
  [status |-> 302, location |-> target, headers |-> headers]

\* the browser posts the add-to-cart form of the product page it shows
Submit(r, body) ==
  /\ act[r].pc = "idle"
  /\ \A q \in Requests : q < r => act[q].pc # "idle"
  /\ act' = [act EXCEPT ![r] = [@ EXCEPT !.pc = "reading", !.body = body,
                                         !.reqCookie = cookie,
                                         !.params = RouteParams(page)]]
  /\ UNCHANGED <<page, cookie, carts, log>>

\* lines 62-70: body and session are read, the form is parsed and validated
ReadEntry(r) ==
  /\ act[r].pc = "reading"
  /\ LET formData == USPParse(act[r].body)
         variantId == USPGet(formData, <<"variantId">>)
     IN  act' = [act EXCEPT ![r] =
                   IF Truthy(variantId)
                   THEN [@ EXCEPT !.pc = "session",
                                  !.session = getSession(act[r].reqCookie),
                                  !.variantId = variantId]
                   ELSE [@ EXCEPT !.pc = "failed",
                                  !.session = getSession(act[r].reqCookie),
                                  !.variantId = variantId,
                                  !.error = "Missing variantId"]]
  /\ UNCHANGED <<page, cookie, carts, log>>

\* lines 73-79: the cart id is read from the session and the branch is taken
GetCartId(r) ==
  /\ act[r].pc = "session"
  /\ LET cartId == SessionGet(act[r].session, "cartId")
     IN  act' = [act EXCEPT ![r] = [@ EXCEPT !.pc = CartBranch(cartId),
                                            !.cartId = cartId,
                                            !.headers = {}]]
  /\ UNCHANGED <<page, cookie, carts, log>>

\* lines 80-86: createCart resolves; the id is stored and commit is called
CreateCartOk(r) ==
  /\ act[r].pc = "create"
  /\ LET lines == LinesOf(act[r].variantId)
         id == NewCartId(carts)
     IN  /\ carts' = CommerceCreate(carts, lines)
         /\ log' = Append(log, [op |-> "createCart", req |-> r, cartId |-> id,
                                lines |-> lines, ok |-> TRUE])
         /\ act' = [act EXCEPT ![r] =
                      [@ EXCEPT !.pc = "commit",
                                !.session = SessionAfterCreate(@, id),
                                !.nSet = @ + 1,
                                !.nCommit = @ + 1]]
  /\ UNCHANGED <<page, cookie>>

\* mutant of CreateCartFail: a rejected createCart is issued once more
CreateCartRetry(r) ==
  /\ act[r].pc = "create"
  /\ log' = Append(log, [op |-> "createCart", req |-> r, cartId |-> Undefined,
                         lines |-> LinesOf(act[r].variantId), ok |-> FALSE])
  /\ act' = [act EXCEPT ![r] =
               IF \E i \in DOMAIN log : log[i].req = r
               THEN [@ EXCEPT !.pc = "failed", !.error = "createCart"]
               ELSE @]
  /\ UNCHANGED <<page, cookie, carts>>

\* line 80: createCart rejects and the action throws
CreateCartFail(r) ==
  /\ act[r].pc = "create"
  /\ log' = Append(log, [op |-> "createCart", req |-> r, cartId |-> Undefined,
                         lines |-> LinesOf(act[r].variantId), ok |-> FALSE])
  /\ act' = [act EXCEPT ![r] = [@ EXCEPT !.pc = "failed", !.error = "createCart"]]
  /\ UNCHANGED <<page, cookie, carts>>

\* lines 86, 97-99: commit resolves, Set-Cookie is set, the redirect returns
CommitDone(r) ==
  /\ act[r].pc = "commit"
  /\ LET headers == HeadersAfterCreate(act[r].headers, act[r].session)
     IN  act' = [act EXCEPT ![r] =
                   [@ EXCEPT !.pc = "done",
                             !.headers = headers,
                             !.response = Redirect(RedirectLocation(act[r].params),
                                                   headers)]]
  /\ UNCHANGED <<page, cookie, carts, log>>

\* lines 89-99: addLineItem resolves and the redirect returns
AddLineItemOk(r) ==
  /\ act[r].pc = "update"
  /\ act[r].cartId \in DOMAIN carts
  /\ LET lines == LinesOf(act[r].variantId)
         headers == HeadersAfterUpdate(act[r].headers, act[r].session)
     IN  /\ carts' = CommerceAddLines(carts, act[r].cartId, lines)
         /\ log' = Append(log, [op |-> "addLineItem", req |-> r,
                                cartId |-> act[r].cartId,
                                lines |-> lines, ok |-> TRUE])
         /\ act' = [act EXCEPT ![r] =
                      [@ EXCEPT !.pc = "done",
                                !.headers = headers,
                                !.response = Redirect(RedirectLocation(act[r].params),
                                                      headers)]]
  /\ UNCHANGED <<page, cookie>>

\* mutant of AddLineItemFail: a failed update falls back to creating a cart
AddLineItemFallback(r) ==
  /\ act[r].pc = "update"
  /\ log' = Append(log, [op |-> "addLineItem", req |-> r,
                         cartId |-> act[r].cartId,
                         lines |-> LinesOf(act[r].variantId), ok |-> FALSE])
  /\ act' = [act EXCEPT ![r] = [@ EXCEPT !.pc = "create"]]
  /\ UNCHANGED <<page, cookie, carts>>

\* line 89: addLineItem rejects and the action throws
AddLineItemFail(r) ==
  /\ act[r].pc = "update"
  /\ log' = Append(log, [op |-> "addLineItem", req |-> r,
                         cartId |-> act[r].cartId,
                         lines |-> LinesOf(act[r].variantId), ok |-> FALSE])
  /\ act' = [act EXCEPT ![r] = [@ EXCEPT !.pc = "failed", !.error = "addLineItem"]]
  /\ UNCHANGED <<page, cookie, carts>>

\* the browser receives the redirect and stores the cookie of its Set-Cookie
SetCookieOf(response) ==
  {h[2] : h \in {x \in response.headers : x[1] = "Set-Cookie"}}

\* mutant of Deliver: a cookie the browser already holds is not replaced
DeliverKeepsFirst(r) ==
  /\ act[r].pc = "done"
  /\ act' = [act EXCEPT ![r] = [@ EXCEPT !.pc = "delivered"]]
  /\ cookie' = IF SetCookieOf(act[r].response) = {} \/ cookie # NoCookie THEN cookie
               ELSE CHOOSE c \in SetCookieOf(act[r].response) : TRUE
  /\ UNCHANGED <<page, carts, log>>

Deliver(r) ==
  /\ act[r].pc = "done"
  /\ act' = [act EXCEPT ![r] = [@ EXCEPT !.pc = "delivered"]]
  /\ cookie' = IF SetCookieOf(act[r].response) = {} THEN cookie
               ELSE CHOOSE c \in SetCookieOf(act[r].response) : TRUE
  /\ UNCHANGED <<page, carts, log>>

\* the whole handler
action(r) ==
  \/ ReadEntry(r)
  \/ GetCartId(r)
  \/ CreateCartOk(r)
  \/ CreateCartFail(r)
  \/ CommitDone(r)
  \/ AddLineItemOk(r)
  \/ AddLineItemFail(r)

(***************************************************************************)
(* Products of the loader data.  A name or value is text (a token          *)
(* sequence); a variant carries one (name, value) pair per option.         *)
(***************************************************************************)
Opt(n, v) == [name |-> n, value |-> v]

\* the product of the spec's scenario: Color x Size, first variant (Red, S)
P1 ==
  [options |-> << [name |-> <<"Color">>, values |-> << <<"Red">>, <<"Blue">> >>],
                  [name |-> <<"Size">>, values |-> << <<"S">>, <<"M">> >>] >>,
   variants |->
     << [id |-> "V1", selectedOptions |-> <<Opt(<<"Color">>, <<"Red">>), Opt(<<"Size">>, <<"S">>)>>],
        [id |-> "V2", selectedOptions |-> <<Opt(<<"Color">>, <<"Red">>), Opt(<<"Size">>, <<"M">>)>>],
        [id |-> "V3", selectedOptions |-> <<Opt(<<"Color">>, <<"Blue">>), Opt(<<"Size">>, <<"S">>)>>],
        [id |-> "V4", selectedOptions |-> <<Opt(<<"Color">>, <<"Blue">>), Opt(<<"Size">>, <<"M">>)>>] >>]

\* a product with a one-valued option and with values that need escaping
P2 ==
  [options |-> << [name |-> <<"Color">>,
                   values |-> << <<"Red">>, <<"Navy", " ", "Blue">>, <<"A", "&", "B", "=", "C">> >>],
                  [name |-> <<"Material">>, values |-> << <<"Wool">> >>] >>,
   variants |->
     << [id |-> "V1", selectedOptions |-> <<Opt(<<"Color">>, <<"Red">>), Opt(<<"Material">>, <<"Wool">>)>>],
        [id |-> "V2", selectedOptions |-> <<Opt(<<"Color">>, <<"Navy", " ", "Blue">>), Opt(<<"Material">>, <<"Wool">>)>>],
        [id |-> "V3", selectedOptions |-> <<Opt(<<"Color">>, <<"A", "&", "B", "=", "C">>), Opt(<<"Material">>, <<"Wool">>)>>] >>]

Products == {P1, P2}

\* query strings the page may be entered with
InitSearches ==
  { <<>>,
    <<"?", "Color", "=", "Blue">>,
    <<"?", "Color", "=", "Green">>,
    <<"?", "page", "=", "2", "&", "Color", "=", "Blue">>,
    <<"?", "Size", "=", "M", "&", "Size", "=", "S">>,
    <<"?", "Material", "=", "Silk">>,
    <<"?", "Color", "=", "Navy", "+", "Blue", "&", "q", "=", "a", "%", "26", "b">> }

\* locale segments a pathname may start with, and one that is no locale
LocalePrefixes == {<<>>, <<"/", "en-us">>, <<"/", "de">>}

\* a path segment of the shape [a-zA-Z]{2}-[a-zA-Z]{2}
LocaleShaped(seg) == seg \in {"en-us", "fr-CA", "EN-gb", "hi-fi"}

\* the route matches a pathname with or without a trailing slash
TrailingSlashes == {<<>>, <<"/">>}

(***************************************************************************)
(* ProductForm and ProductOptionLink, lines 164-405.                       *)
(***************************************************************************)
\* the URLSearchParams objects of one render, by identity
ObjIds == {"current", "pending", "defaults", "link"}

NoLocation == [pathname |-> <<>>, search |-> <<>>]

\* no form is being posted
NoSubmission == [variantId |-> "", shown |-> <<>>]

IdleTransition ==
  [state |-> "idle", location |-> NoLocation, cause |-> "none",
   submission |-> NoSubmission]

\* line 180
firstVariant(prod) == prod.variants[1]

\* product.selectedVariant is absent
NoVariant == [id |-> "none", selectedOptions |-> <<>>]

\* mutant of selectedVariant: no fallback to the first variant
selectedVariantNoFallback(psv, prod) == psv

\* mutant of selectedVariant: the loader's variant is ignored
selectedVariantFirst(psv, prod) == firstVariant(prod)

\* line 205: product.selectedVariant ?? firstVariant
selectedVariant(psv, prod) == IF psv = NoVariant THEN firstVariant(prod) ELSE psv

\* mutant of searchParamsRef: the pending destination is never used
searchParamsCommitted(tr) == "current"

\* lines 173-177: the object searchParams refers to
searchParamsRef(tr) ==
  IF tr.state = "loading" /\ tr.location # NoLocation THEN "pending" ELSE "current"

\* line 189: new URLSearchParams(searchParams) is a new object
ClonedParams(src) == "defaults"

\* mutant of NeedsDefault: no option is filled in
NeedsDefaultNever(params, name) == FALSE

\* mutant of NeedsDefault: every option of the first variant is written
NeedsDefaultAlways(params, name) == TRUE

\* line 192
NeedsDefault(params, name) == ~USPHas(params, name)

\* lines 191-195: the loop over firstVariant.selectedOptions
RECURSIVE FillLoop(_, _, _, _)
FillLoop(h, sp, d, opts) ==
  IF opts = <<>> THEN h
  ELSE LET o == Head(opts)
           h2 == IF NeedsDefault(h[sp], o.name)
                 THEN [h EXCEPT ![d] = USPSet(h[d], o.name, o.value)]
                 ELSE h
       IN  FillLoop(h2, sp, d, Tail(opts))

\* mutant of searchParamsWithDefaults: the defaults are written onto the
\* object an earlier render left behind instead of a new clone
searchParamsWithDefaultsStale(h, sp, prod) ==
  FillLoop(h, sp, ClonedParams(sp), firstVariant(prod).selectedOptions)

\* lines 188-198: the heap after searchParamsWithDefaults was computed
searchParamsWithDefaults(h, sp, prod) ==
  LET d == ClonedParams(sp)
      cloned == [h EXCEPT ![d] = h[sp]]
  IN  FillLoop(cloned, sp, d, firstVariant(prod).selectedOptions)

\* line 386: /\/[a-zA-Z]{2}-[a-zA-Z]{2}\//g.test(pathname)
isLangPathname(pathname) ==
  \E i \in 1..(Len(pathname) - 2) :
    /\ pathname[i] = "/"
    /\ LocaleShaped(pathname[i + 1])
    /\ pathname[i + 2] = "/"

\* segs.join('/')
RECURSIVE Join(_)
Join(segs) ==
  IF segs = <<>> THEN <<>>
  ELSE IF Len(segs) = 1 THEN Head(segs)
  ELSE Head(segs) \o <<"/">> \o Join(Tail(segs))

\* lines 388-390
LinkPath(pathname) ==
  IF isLangPathname(pathname)
  THEN LET segs == Split(pathname, "/")
       IN  <<"/">> \o Join(SubSeq(segs, 3, Len(segs)))
  ELSE pathname

\* mutant of ClonedSearchParams: the link edits the selection it was given
ClonedSearchParamsAlias(src) == src

\* line 392: new URLSearchParams(searchParams) is a new object
ClonedSearchParams(src) == "link"

\* lines 392-400: one ProductOptionLink; the heap after it and its `to`
ProductOptionLink(h, d, pathname, optionName, optionValue) ==
  LET l == ClonedSearchParams(d)
      h2 == [h EXCEPT ![l] = USPSet(h[d], optionName, optionValue)]
  IN  [heap |-> h2,
       link |-> [name |-> optionName, value |-> optionValue,
                 to |-> LinkPath(pathname) \o <<"?">> \o USPToString(h2[l])]]

\* mutant of Selectable: every option is rendered
SelectableAlways(option) == TRUE

\* line 218: the filter of the rendered options
Selectable(option) == Len(option.values) > 1

\* lines 217-219, 260, 299: the (option, value) pairs that get a link
OptionLinks(prod) ==
  LET RECURSIVE Pairs(_)
      Pairs(opts) ==
        IF opts = <<>> THEN <<>>
        ELSE LET o == Head(opts)
                 mine == IF Selectable(o)
                         THEN [i \in 1..Len(o.values) |-> <<o.name, o.values[i]>>]
                         ELSE <<>>
             IN  mine \o Pairs(Tail(opts))
  IN  Pairs(prod.options)

\* the links of one render, built one after the other on the same heap
RECURSIVE RenderLinks(_, _, _, _, _)
RenderLinks(h, d, pathname, pairs, done) ==
  IF pairs = <<>> THEN [heap |-> h, links |-> done]
  ELSE LET r == ProductOptionLink(h, d, pathname, Head(pairs)[1], Head(pairs)[2])
       IN  RenderLinks(r.heap, d, pathname, Tail(pairs), Append(done, r.link))

\* lines 164-370: one render of ProductForm for the router state given
RenderProductForm(h0, loc, tr, prod, psv) ==
  LET sp == searchParamsRef(tr)
      h1 == IF sp = "pending"
            THEN [h0 EXCEPT !["pending"] = USPParse(tr.location.search)]
            ELSE h0
      h2 == searchParamsWithDefaults(h1, sp, prod)
      d == ClonedParams(sp)
      r == RenderLinks(h2, d, loc.pathname, OptionLinks(prod), <<>>)
  IN  [heap |-> r.heap,
       view |-> [searchParams |-> sp, defaults |-> d,
                 filled |-> h2[d], links |-> r.links,
                 variantId |-> selectedVariant(psv, prod).id]]

(***************************************************************************)
(* The loader's product data (getProductData of ~/data): the variant the   *)
(* server selects for the query of the requested URL.                      *)
(***************************************************************************)
\* the working selection: every option of the default variant that the
\* parameters do not name is filled in with the default variant's value
RECURSIVE WorkingSelection(_, _)
WorkingSelection(params, opts) ==
  IF opts = <<>> THEN params
  ELSE WorkingSelection(
         IF USPHas(params, Head(opts).name) THEN params
         ELSE Append(params, <<Head(opts).name, Head(opts).value>>),
         Tail(opts))

\* the variant gives every one of its options the value the selection has
VariantMatches(variant, selection) ==
  \A i \in DOMAIN variant.selectedOptions :
    USPGet(selection, variant.selectedOptions[i].name) =
      variant.selectedOptions[i].value

\* the variant whose option set equals the working selection, if any
selectedVariantOf(prod, params) ==
  LET selection == WorkingSelection(params, prod.variants[1].selectedOptions)
      hits == {i \in DOMAIN prod.variants : VariantMatches(prod.variants[i], selection)}
  IN  IF hits = {} THEN NoVariant
      ELSE prod.variants[CHOOSE i \in hits : \A j \in hits : i <= j]

\* lines 47-51: the loader's product for the query of the requested URL
getProductData(prod, search) == selectedVariantOf(prod, USPParse(search))

(***************************************************************************)
(* The router around the page: navigation by option link and by form.      *)
(***************************************************************************)
\* a `to` or redirect target as a location: split at the first "?"
ToLocation(to) ==
  LET i == IndexOf(to, "?", 1)
  IN  IF i = 0 THEN [pathname |-> to, search |-> <<>>]
      ELSE [pathname |-> SubSeq(to, 1, i - 1),
            search |-> IF i = Len(to) THEN <<>> ELSE SubSeq(to, i, Len(to))]

\* the locale prefix the committed pathname carries, if any
LocaleOf(pathname) ==
  IF isLangPathname(pathname) /\ LocaleShaped(pathname[2])
  THEN SubSeq(pathname, 1, 2) ELSE <<>>

\* LinkI18n: the link target under the active locale
LinkI18n(to, pathname) ==
  LET loc == ToLocation(to)
  IN  [loc EXCEPT !.pathname = LocaleOf(pathname) \o @]

\* the product page of this product is the committed route
OnProductPage(pathname) ==
  \E pre \in LocalePrefixes, trail \in TrailingSlashes :
    pathname = pre \o ProductPath(page) \o trail

EmptyHeap == [o \in ObjIds |-> <<>>]

\* the user follows the i-th option link of the rendered form
ClickOption(i) ==
  /\ mounted
  /\ i \in DOMAIN view.links
  /\ LET tr == [state |-> "loading",
                location |-> LinkI18n(view.links[i].to, location.pathname),
                cause |-> "option", submission |-> NoSubmission]
         r == RenderProductForm(heap, location, tr, product, productSelectedVariant)
     IN  /\ transition' = tr
         /\ heap' = r.heap
         /\ view' = r.view
  /\ UNCHANGED <<product, productSelectedVariant, location, mounted>>

\* the user posts the add-to-cart form; the pending location is the form
\* action: the current route, with its query (keepSearch) or without it,
\* as the router version resolves a form that names no action
SubmitForm(keepSearch) ==
  /\ mounted
  /\ LET tr == [state |-> "submitting",
                location |-> [pathname |-> location.pathname,
                              search |-> IF keepSearch THEN location.search ELSE <<>>],
                cause |-> "submit",
                submission |-> [variantId |-> view.variantId, shown |-> view.filled]]
         r == RenderProductForm(heap, location, tr, product, productSelectedVariant)
     IN  /\ transition' = tr
         /\ heap' = r.heap
         /\ view' = r.view
  /\ UNCHANGED <<product, productSelectedVariant, location, mounted>>

\* the action returned its redirect: the router loads the redirect target
ActionRedirect ==
  /\ mounted
  /\ transition.state = "submitting"
  /\ LET tr == [state |-> "loading",
                location |-> ToLocation(RedirectLocation(RouteParams(page))),
                cause |-> "submit", submission |-> NoSubmission]
         r == RenderProductForm(heap, location, tr, product, productSelectedVariant)
     IN  /\ transition' = tr
         /\ heap' = r.heap
         /\ view' = r.view
  /\ UNCHANGED <<product, productSelectedVariant, location, mounted>>

\* the action threw: the error boundary replaces the page
ActionError ==
  /\ mounted
  /\ transition.state = "submitting"
  /\ transition' = IdleTransition
  /\ mounted' = FALSE
  /\ UNCHANGED <<product, productSelectedVariant, location, heap, view>>

\* the loaders of the pending location resolved: the location is committed
NavCommit ==
  /\ mounted
  /\ transition.state = "loading"
  /\ location' = transition.location
  /\ transition' = IdleTransition
  /\ IF OnProductPage(transition.location.pathname)
     THEN LET h == [heap EXCEPT !["current"] = USPParse(transition.location.search)]
              psv == getProductData(product, transition.location.search)
              r == RenderProductForm(h, transition.location, IdleTransition, product, psv)
          IN  /\ mounted' = TRUE
              /\ productSelectedVariant' = psv
              /\ heap' = r.heap
              /\ view' = r.view
     ELSE /\ mounted' = FALSE
          /\ UNCHANGED <<productSelectedVariant, heap, view>>
  /\ UNCHANGED product

(***************************************************************************)
(* The loader, lines 42-59, and the page that awaits its deferred value,   *)
(* lines 102-162.  getProductData and getRecommendedProducts (~/data) are  *)
(* the environment: each resolves with one of its results, rejects, or     *)
(* does not settle.                                                        *)
(***************************************************************************)
MaxLoad == 2

\* the loader invocations
Loads == 1..MaxLoad

\* product: null
NullProduct == [isNull |-> TRUE, id |-> ""]

\* no data yet
NoData == [shop |-> "", product |-> NullProduct]

NoPage == [state |-> "none", shop |-> "", product |-> NullProduct, panel |-> "none"]

IdleLoad ==
  [pc |-> "idle", params |-> {}, primary |-> NoData, recommended |-> "unset",
   recKey |-> "", nRecommended |-> 0, response |-> NoData, error |-> "none",
   page |-> NoPage]

\* the parameter sets the loader may be called with: the route's, or none
LoaderParams == {RouteParams(h) : h \in Handles} \cup {{}}

\* what getProductData may resolve with for a handle: the product, a product
\* without identifier, or no product
GetProductDataResults(handle) ==
  { [shop |-> "shop", product |-> [isNull |-> FALSE, id |-> handle]],
    [shop |-> "shop", product |-> [isNull |-> FALSE, id |-> ""]],
    [shop |-> "shop", product |-> NullProduct] }

\* mutant of StartsRecommended: the fetch is started for any primary result
StartsRecommendedAlways(prod) == TRUE

\* line 55: product?.id
StartsRecommended(prod) == ~prod.isNull /\ prod.id # ""

\* lines 152-159: what the Suspense/Await panel shows for the deferred value
PanelFor(recommended) ==
  CASE recommended = "pending" -> "fallback"
    [] recommended = "rejected" -> "errorElement"
    [] OTHER -> "swimlane"

\* the router calls the loader of the route
LoaderCall(l, params) ==
  /\ load[l].pc = "idle"
  /\ \A k \in Loads : k < l => load[k].pc # "idle"
  /\ load' = [load EXCEPT ![l] = [@ EXCEPT !.pc = "entered", !.params = params]]

\* lines 43-50: the handle is validated and getProductData is called
LoaderEntry(l) ==
  /\ load[l].pc = "entered"
  /\ load' = [load EXCEPT ![l] =
               IF \E p \in load[l].params : p[1] = "handle"
               THEN [@ EXCEPT !.pc = "fetching"]
               ELSE [@ EXCEPT !.pc = "thrown", !.error = "Missing handle param"]]

\* lines 46-58: getProductData resolved; the deferred response is returned,
\* with the recommendation fetch started or with null
GetProductDataOk(l, data) ==
  /\ load[l].pc = "fetching"
  /\ data \in GetProductDataResults(ParamText(load[l].params, "handle"))
  /\ LET starts == StartsRecommended(data.product)
     IN  load' = [load EXCEPT ![l] =
                    [@ EXCEPT !.pc = "returned",
                              !.primary = data,
                              !.recommended = IF starts THEN "pending" ELSE "null",
                              !.recKey = IF starts THEN data.product.id ELSE "",
                              !.nRecommended = IF starts THEN @ + 1 ELSE @,
                              !.response = data]]

\* line 46: getProductData rejected and the loader throws
GetProductDataFail(l) ==
  /\ load[l].pc = "fetching"
  /\ load' = [load EXCEPT ![l] = [@ EXCEPT !.pc = "thrown", !.error = "getProductData"]]

\* lines 102-162: the page renders the loader data; line 104 reads the
\* fields of product
RenderPage(l) ==
  /\ load[l].pc = "returned"
  /\ load[l].page.state = "none"
  /\ load' = [load EXCEPT ![l].page =
               IF load[l].response.product.isNull
               THEN [@ EXCEPT !.state = "errorBoundary"]
               ELSE [state |-> "rendered",
                     shop |-> load[l].response.shop,
                     product |-> load[l].response.product,
                     panel |-> PanelFor(load[l].recommended)]]

\* the loader threw: the error boundary is shown
RenderError(l) ==
  /\ load[l].pc = "thrown"
  /\ load[l].page.state = "none"
  /\ load' = [load EXCEPT ![l].page = [@ EXCEPT !.state = "errorBoundary"]]

\* the panel of a rendered page follows the deferred value
PageAfter(shown, recommended) ==
  IF shown.state = "rendered" THEN [shown EXCEPT !.panel = PanelFor(recommended)]
  ELSE shown

\* getRecommendedProducts resolved
RecommendedResolve(l) ==
  /\ load[l].recommended = "pending"
  /\ load' = [load EXCEPT ![l] =
               [@ EXCEPT !.recommended = "resolved",
                         !.page = PageAfter(@, "resolved")]]

\* mutant of RecommendedReject: the rejection fails the page
RecommendedRejectFailsPage(l) ==
  /\ load[l].recommended = "pending"
  /\ load' = [load EXCEPT ![l] =
               [@ EXCEPT !.recommended = "rejected",
                         !.pc = "thrown",
                         !.response = NoData,
                         !.page = [NoPage EXCEPT !.state = "errorBoundary"]]]

\* getRecommendedProducts rejected: the errorElement of Await is shown
RecommendedReject(l) ==
  /\ load[l].recommended = "pending"
  /\ load' = [load EXCEPT ![l] =
               [@ EXCEPT !.recommended = "rejected",
                         !.page = PageAfter(@, "rejected")]]

LoadInit == load = [l \in Loads |-> IdleLoad]

(***************************************************************************)
(* Specifications.                                                         *)
(***************************************************************************)
\* no request has been sent
CartInit(handles) ==
  /\ page \in handles
  /\ cookie = NoCookie
  /\ act = [r \in Requests |-> IdleAct]
  /\ carts = <<>>
  /\ log = <<>>

\* the page has been entered at a location and rendered once
PageInit(prods, prefixes, trails, searches) ==
  /\ product \in prods
  /\ \E pre \in prefixes, trail \in trails, q \in searches :
       location = [pathname |-> pre \o ProductPath(page) \o trail, search |-> q]
  /\ transition = IdleTransition
  /\ mounted = TRUE
  /\ productSelectedVariant = getProductData(product, location.search)
  /\ LET h == [EmptyHeap EXCEPT !["current"] = USPParse(location.search)]
         r == RenderProductForm(h, location, IdleTransition, product, productSelectedVariant)
     IN  /\ heap = r.heap
         /\ view = r.view

\* the server side: concurrent add-to-cart requests of one browser session,
\* posted from the product page of one handle
Init ==
  /\ CartInit({"snowboard"})
  /\ PageInit({P1}, {<<>>}, {<<>>}, {<<>>})
  /\ LoadInit

Next ==
  \/ \E r \in Requests, body \in Bodies : Submit(r, body) /\ UNCHANGED <<navVars, loadVars>>
  \/ \E r \in Requests : action(r) /\ UNCHANGED <<navVars, loadVars>>
  \/ \E r \in Requests : Deliver(r) /\ UNCHANGED <<navVars, loadVars>>

Spec == Init /\ [][Next]_vars

\* the loader and the deferred recommendation of the pages it serves
NextLoader ==
  \/ \E l \in Loads, params \in LoaderParams :
       LoaderCall(l, params) /\ UNCHANGED <<cartVars, navVars>>
  \/ \E l \in Loads : LoaderEntry(l) /\ UNCHANGED <<cartVars, navVars>>
  \/ \E l \in Loads, h \in Handles :
       \E data \in GetProductDataResults(h) :
         GetProductDataOk(l, data) /\ UNCHANGED <<cartVars, navVars>>
  \/ \E l \in Loads : GetProductDataFail(l) /\ UNCHANGED <<cartVars, navVars>>
  \/ \E l \in Loads : RenderPage(l) /\ UNCHANGED <<cartVars, navVars>>
  \/ \E l \in Loads : RenderError(l) /\ UNCHANGED <<cartVars, navVars>>
  \/ \E l \in Loads : RecommendedResolve(l) /\ UNCHANGED <<cartVars, navVars>>
  \/ \E l \in Loads : RecommendedReject(l) /\ UNCHANGED <<cartVars, navVars>>

SpecLoader == Init /\ [][NextLoader]_vars

\* the browser side: the product page under navigation
InitNav ==
  /\ CartInit(Handles)
  /\ PageInit(Products, LocalePrefixes, TrailingSlashes, InitSearches)
  /\ LoadInit

NextNav ==
  \/ \E i \in DOMAIN view.links : ClickOption(i) /\ UNCHANGED <<cartVars, loadVars>>
  \/ \E keepSearch \in BOOLEAN : SubmitForm(keepSearch) /\ UNCHANGED <<cartVars, loadVars>>
  \/ ActionRedirect /\ UNCHANGED <<cartVars, loadVars>>
  \/ ActionError /\ UNCHANGED <<cartVars, loadVars>>
  \/ NavCommit /\ UNCHANGED <<cartVars, loadVars>>

SpecNav == InitNav /\ [][NextNav]_vars

(***************************************************************************)
(* Sequential use: the browser posts the next form only after the previous *)
(* request has been answered (its response delivered, or its error shown). *)
(***************************************************************************)
Settled(r) == act[r].pc \in {"idle", "delivered", "failed"}

SubmitSeq(r, body) ==
  /\ \A q \in Requests : Settled(q)
  /\ Submit(r, body)

NextSeq ==
  \/ \E r \in Requests, body \in Bodies : SubmitSeq(r, body) /\ UNCHANGED <<navVars, loadVars>>
  \/ \E r \in Requests : action(r) /\ UNCHANGED <<navVars, loadVars>>
  \/ \E r \in Requests : Deliver(r) /\ UNCHANGED <<navVars, loadVars>>

SpecSeq == Init /\ [][NextSeq]_vars

(***************************************************************************)
(* Vocabulary of the cart claims.                                          *)
(***************************************************************************)
\* the variantId field of the form body request r carries
Submitted(r) == USPGet(USPParse(act[r].body), <<"variantId">>)

\* the cart id the session of request r held when the request was sent
CartIdBefore(r) == SessionGet(getSession(act[r].reqCookie), "cartId")

\* the calls the commerce source received from request r, in order
CallsOf(r) == SelectSeq(log, LAMBDA e : e.req = r)

\* the action of request r returned a response
Returned(r) == act[r].pc \in {"done", "delivered"}

\* the one line a call for variant v carries
OneLine(v) == <<[merchandiseId |-> v]>>


(***************************************************************************)
(* Claims on the cart session transaction.                                 *)
(***************************************************************************)
\* C1: a returned action whose session held no cartId called createCart
\* exactly once (and nothing else) with the single line of the submitted
\* variantId, stored the returned cart id in the session under cartId, and
\* returned a redirect whose only Set-Cookie is session.commit() of that
\* session.
C1_CreateBranch ==
  \A r \in Requests :
    (Returned(r) /\ CartIdBefore(r) = Undefined) =>
      /\ Len(CallsOf(r)) = 1
      /\ CallsOf(r)[1].op = "createCart"
      /\ CallsOf(r)[1].ok
      /\ CallsOf(r)[1].lines = OneLine(Submitted(r))
      /\ CallsOf(r)[1].cartId \in DOMAIN carts
      /\ SessionGet(act[r].session, "cartId") = CallsOf(r)[1].cartId
      /\ act[r].nSet = 1
      /\ act[r].nCommit = 1
      /\ act[r].response.status = 302
      /\ SetCookieOf(act[r].response) = {SessionCommit(act[r].session)}

\* C1 witness: a request sent without session cookie has returned
C1_Witness ==
  \E r \in Requests :
    /\ Returned(r)
    /\ act[r].reqCookie = NoCookie
    /\ SetCookieOf(act[r].response) # {}

\* C2: a returned action whose session held a cartId called addLineItem
\* exactly once with that cartId and the submitted variantId, never
\* createCart, never session.set or session.commit, returned a redirect
\* without Set-Cookie and left the session data as the request carried it;
\* once it is delivered the browser's cookie is still one that a create
\* branch issued.
C2_UpdateBranch ==
  \A r \in Requests :
    (Returned(r) /\ CartIdBefore(r) # Undefined) =>
      /\ Len(CallsOf(r)) = 1
      /\ CallsOf(r)[1].op = "addLineItem"
      /\ CallsOf(r)[1].cartId = CartIdBefore(r)
      /\ CallsOf(r)[1].lines = OneLine(Submitted(r))
      /\ act[r].nSet = 0
      /\ act[r].nCommit = 0
      /\ act[r].response.status = 302
      /\ SetCookieOf(act[r].response) = {}
      /\ act[r].session = getSession(act[r].reqCookie)
      /\ act[r].pc = "delivered" =>
           \E q \in Requests :
             /\ CartIdBefore(q) = Undefined
             /\ act[q].pc = "delivered"
             /\ cookie \in SetCookieOf(act[q].response)

\* C2 witness: two actions of the update branch have returned and been
\* delivered, and the browser still holds the cart id they were sent with
C2_Witness ==
  \E r1, r2 \in Requests :
    /\ r1 # r2
    /\ act[r1].pc = "delivered" /\ act[r2].pc = "delivered"
    /\ CartIdBefore(r1) # Undefined
    /\ CartIdBefore(r2) = CartIdBefore(r1)
    /\ SessionGet(getSession(cookie), "cartId") = CartIdBefore(r1)

\* C3: under sequential use with no failed action, the commerce source has
\* received one createCart (from the first action) followed only by
\* addLineItem calls on the cart that createCart returned, one call per
\* action in order; only the first response carries Set-Cookie; and the one
\* cart holds the lines of all submitted variants in order.
C3_OneCartPerSession ==
  ((\A r \in Requests : act[r].pc # "failed") /\ log # <<>>) =>
    /\ log[1].op = "createCart"
    /\ \A i \in DOMAIN log :
         /\ log[i].req = i
         /\ log[i].ok
         /\ i > 1 => (log[i].op = "addLineItem" /\ log[i].cartId = log[1].cartId)
    /\ Len(carts) = 1
    /\ carts[log[1].cartId] =
         [i \in 1..Len(log) |-> [merchandiseId |-> Submitted(i)]]
    /\ \A r \in Requests :
         Returned(r) => ((SetCookieOf(act[r].response) # {}) <=> (r = 1))

\* C3 witness: three successful actions in a row, the first two for
\* different variants
C3_Witness ==
  /\ \A r \in 1..3 : act[r].pc = "delivered"
  /\ Submitted(1) # Submitted(2)
  /\ Len(carts) = 1
  /\ Len(carts[1]) = 3

\* C4: an action whose createCart or addLineItem call failed has thrown: it
\* returned no redirect and produced no Set-Cookie, made no other call (no
\* retry, no fallback from update to create), never set or committed the
\* session, and its session data is what the request carried, so that a
\* retry takes the branch of the failed call; the browser's cookie only ever
\* comes from the Set-Cookie of a delivered response.
C4_MutationFailure ==
  /\ \A i \in DOMAIN log :
       ~log[i].ok =>
         LET r == log[i].req
         IN  /\ act[r].pc = "failed"
             /\ act[r].response = NoResponse
             /\ act[r].headers = {}
             /\ CallsOf(r) = <<log[i]>>
             /\ act[r].nSet = 0
             /\ act[r].nCommit = 0
             /\ act[r].session = getSession(act[r].reqCookie)
             /\ log[i].op = (IF CartBranch(CartIdBefore(r)) = "create"
                             THEN "createCart" ELSE "addLineItem")
  /\ \/ cookie = NoCookie
     \/ \E r \in Requests :
          act[r].pc = "delivered" /\ cookie \in SetCookieOf(act[r].response)

\* C4 witness: a failed createCart without session cart and a failed
\* addLineItem with one
C4_Witness ==
  \E r1, r2 \in Requests :
    /\ act[r1].error = "createCart" /\ CartIdBefore(r1) = Undefined
    /\ act[r2].error = "addLineItem" /\ CartIdBefore(r2) # Undefined

\* C5: a request whose body has no variantId, or an empty one, fails in
\* validation with no effect: no commerce call, no session.set, no
\* session.commit, no response.
C5_MissingVariantId ==
  \A r \in Requests :
    (act[r].pc \notin {"idle", "reading"}
       /\ Submitted(r) \in {Null, <<>>}) =>
      /\ act[r].pc = "failed"
      /\ act[r].error = "Missing variantId"
      /\ CallsOf(r) = <<>>
      /\ act[r].nSet = 0
      /\ act[r].nCommit = 0
      /\ act[r].headers = {}
      /\ act[r].response = NoResponse

\* C5 witness: one request failed for a missing field, one for an empty one
C5_Witness ==
  \E r1, r2 \in Requests :
    /\ act[r1].pc = "failed" /\ Submitted(r1) = Null
    /\ act[r2].pc = "failed" /\ Submitted(r2) = <<>>

\* C6: two actions sent from a session without cartId that both returned
\* have each called createCart; the two carts have different ids, each was
\* created with the line of its own action, and each response carries the
\* Set-Cookie of its own cart.
C6_CreationRace ==
  \A r1, r2 \in Requests :
    (r1 # r2 /\ Returned(r1) /\ Returned(r2)
       /\ CartIdBefore(r1) = Undefined /\ CartIdBefore(r2) = Undefined) =>
      /\ Len(CallsOf(r1)) = 1 /\ CallsOf(r1)[1].op = "createCart"
      /\ Len(CallsOf(r2)) = 1 /\ CallsOf(r2)[1].op = "createCart"
      /\ CallsOf(r1)[1].cartId # CallsOf(r2)[1].cartId
      /\ Head(carts[CallsOf(r1)[1].cartId]) = Head(OneLine(Submitted(r1)))
      /\ Head(carts[CallsOf(r2)[1].cartId]) = Head(OneLine(Submitted(r2)))
      /\ SetCookieOf(act[r1].response) =
           {SessionCommit({<<"cartId", CallsOf(r1)[1].cartId>>})}
      /\ SetCookieOf(act[r2].response) =
           {SessionCommit({<<"cartId", CallsOf(r2)[1].cartId>>})}

\* C6 witness: two actions sent without cart are in flight together, both
\* have returned, and two carts exist
C6_Witness ==
  /\ act[1].pc = "done" /\ act[2].pc = "done"
  /\ CartIdBefore(1) = Undefined /\ CartIdBefore(2) = Undefined
  /\ Len(carts) = 2

\* C7 (as claimed): every returned action redirects to the product page of
\* the handle the request was posted on.
C7_RedirectToProduct ==
  \A r \in Requests :
    Returned(r) =>
      act[r].response.location = ProductPath(ParamText(act[r].params, "handle"))

(***************************************************************************)
(* Claims on the selection logic of ProductForm.                           *)
(***************************************************************************)
\* the text of the query the rendered searchParams was taken from
DisplaySource ==
  IF view.searchParams = "pending" THEN transition.location.search
  ELSE location.search

\* the query of a link target
QueryOf(to) == USPParse(ToLocation(to).search)

\* C8: while the form is mounted, every key of the selection the render
\* started from has the same values in the filled-in selection (also a value
\* no variant has), and the object holding that selection still has the
\* content parsed from the URL.
C8_FillKeepsKeys ==
  mounted =>
    LET S == USPParse(DisplaySource)
    IN  /\ \A k \in USPKeys(S) :
             /\ USPGet(view.filled, k) = USPGet(S, k)
             /\ USPGetAll(view.filled, k) = USPGetAll(S, k)
        /\ heap[view.searchParams] = S

\* C8 witness: the selection names Color=Green, which no variant of P1 has;
\* the fill added Size from the first variant and kept Green
C8_Witness ==
  /\ mounted
  /\ product = P1
  /\ USPGet(USPParse(DisplaySource), <<"Color">>) = <<"Green">>
  /\ ~USPHas(USPParse(DisplaySource), <<"Size">>)
  /\ USPGet(view.filled, <<"Size">>) = <<"S">>
  /\ USPGet(view.filled, <<"Color">>) = <<"Green">>

\* C9 (as claimed): the displayed selection is the pending destination's
\* query exactly while a navigation started by an option click is in flight,
\* and the committed URL's query otherwise.
C9_OverlayOptionClickOnly ==
  mounted =>
    heap[view.searchParams] =
      (IF transition.state # "idle" /\ transition.cause = "option"
       THEN USPParse(transition.location.search)
       ELSE USPParse(location.search))

\* C9 (amended): the displayed selection is the pending destination's query
\* exactly while the transition is in state "loading" (after an option click
\* or after the redirect of an add-to-cart submission), and the committed
\* URL's query otherwise; the committed parameters object always holds the
\* parsed committed query, and with no navigation pending the displayed
\* selection is the committed one.
C9_Overlay ==
  mounted =>
    /\ heap[view.searchParams] =
         (IF transition.state = "loading"
          THEN USPParse(transition.location.search)
          ELSE USPParse(location.search))
    /\ (view.searchParams = "pending") <=> (transition.state = "loading")
    /\ heap["current"] = USPParse(location.search)
    /\ transition.state = "idle" => heap[view.searchParams] = USPParse(location.search)

\* C9 witness: an option click is in flight and the displayed selection is
\* the destination's, which differs from the committed one
C9_Witness ==
  /\ mounted
  /\ transition.state = "loading"
  /\ transition.cause = "option"
  /\ heap[view.searchParams] = USPParse(transition.location.search)
  /\ USPParse(transition.location.search) # USPParse(location.search)

\* C10: in the query of every rendered option link the option's name maps to
\* the link's value (once), every other key of the filled-in selection has
\* the values it has there, no other key appears, and the filled-in
\* selection object is unchanged by building the links.
C10_LinkKeepsOthers ==
  mounted =>
    /\ \A i \in DOMAIN view.links :
         LET L == view.links[i]
             q == QueryOf(L.to)
             S == view.filled
         IN  /\ USPGetAll(q, L.name) = <<L.value>>
             /\ \A k \in USPKeys(S) \ {L.name} :
                  USPGetAll(q, k) = USPGetAll(S, k)
             /\ USPKeys(q) = USPKeys(S) \cup {L.name}
    /\ heap[view.defaults] = view.filled

\* C10 witness: a link for a value that needs escaping, built from a
\* selection with an unrelated key whose value needs escaping too
C10_Witness ==
  /\ mounted
  /\ USPGet(view.filled, <<"q">>) = <<"a", "&", "b">>
  /\ USPGet(view.filled, <<"Color">>) = <<"Navy", " ", "Blue">>
  /\ \E i \in DOMAIN view.links :
       /\ view.links[i].value = <<"A", "&", "B", "=", "C">>
       /\ USPGet(QueryOf(view.links[i].to), <<"Color">>) = <<"A", "&", "B", "=", "C">>
       /\ USPGet(QueryOf(view.links[i].to), <<"q">>) = <<"a", "&", "b">>

(***************************************************************************)
(* Claims on the option link path.                                         *)
(***************************************************************************)
\* C11: the path of every option link is the current pathname with its
\* leading locale segment (two letters, hyphen, two letters) removed when the
\* pathname starts with one, and the current pathname unchanged otherwise.
C11_LinkPathStripsLeadingLocale ==
  mounted =>
    LET p == location.pathname
        leading == /\ Len(p) >= 3
                   /\ p[1] = "/"
                   /\ LocaleShaped(p[2])
                   /\ p[3] = "/"
        expected == IF leading THEN SubSeq(p, 3, Len(p)) ELSE p
    IN  \A i \in DOMAIN view.links :
          ToLocation(view.links[i].to).pathname = expected

(***************************************************************************)
(* Vocabulary of the variant claims.                                       *)
(***************************************************************************)
\* the options of the product for which the selection names a value the
\* option does not have
UnmatchedOptions(prod, S) ==
  {i \in DOMAIN prod.options :
     /\ USPHas(S, prod.options[i].name)
     /\ \A j \in DOMAIN prod.options[i].values :
          USPGet(S, prod.options[i].name) # prod.options[i].values[j]}

\* the selection of the committed URL and the selection on display
CommittedSelection == USPParse(location.search)

DisplaySelection == USPParse(DisplaySource)

(***************************************************************************)
(* Claims on the resolved variant.                                         *)
(***************************************************************************)
\* C12 as stated: when the selection names a value no variant has, no variant
\* is resolved, the form uses the first variant, the filled-in selection keeps
\* the unmatched value and EVERY option link carries it unchanged.
C12_UnmatchedInEveryLink ==
  mounted =>
    /\ UnmatchedOptions(product, CommittedSelection) # {} =>
         /\ productSelectedVariant = NoVariant
         /\ view.variantId = firstVariant(product).id
    /\ \A u \in UnmatchedOptions(product, DisplaySelection) :
         LET name == product.options[u].name
         IN  /\ USPGet(view.filled, name) = USPGet(DisplaySelection, name)
             /\ \A i \in DOMAIN view.links :
                  USPGet(QueryOf(view.links[i].to), name) =
                    USPGet(DisplaySelection, name)

\* C12: when the selection names a value no variant has, no variant is
\* resolved, the form uses the first variant, the filled-in selection keeps the
\* unmatched value and every link of another option carries it unchanged; a
\* link of the same option carries the value the link selects.
C12_UnmatchedSelection ==
  mounted =>
    /\ UnmatchedOptions(product, CommittedSelection) # {} =>
         /\ productSelectedVariant = NoVariant
         /\ view.variantId = firstVariant(product).id
    /\ \A u \in UnmatchedOptions(product, DisplaySelection) :
         LET name == product.options[u].name
         IN  /\ USPGet(view.filled, name) = USPGet(DisplaySelection, name)
             /\ \A i \in DOMAIN view.links :
                  USPGet(QueryOf(view.links[i].to), name) =
                    (IF view.links[i].name = name THEN view.links[i].value
                     ELSE USPGet(DisplaySelection, name))

\* Color=Green was kept through a click on Size=M: nothing is resolved, the
\* form posts the first variant, the links of Size still carry Green
C12_Witness ==
  /\ mounted
  /\ product = P1
  /\ transition.state = "idle"
  /\ USPGet(CommittedSelection, <<"Color">>) = <<"Green">>
  /\ USPGet(CommittedSelection, <<"Size">>) = <<"M">>
  /\ productSelectedVariant = NoVariant
  /\ view.variantId = "V1"
  /\ \E i \in DOMAIN view.links :
       /\ view.links[i].name = <<"Size">>
       /\ USPGet(QueryOf(view.links[i].to), <<"Color">>) = <<"Green">>

\* the filled-in selection a render of the form computes for a selection
FilledOf(prod, S) ==
  searchParamsWithDefaults([EmptyHeap EXCEPT !["current"] = S], "current", prod)
    [ClonedParams("current")]

\* two selections have the same keys and the same value for every key
SameMapping(A, B) ==
  /\ USPKeys(A) = USPKeys(B)
  /\ \A k \in USPKeys(A) : USPGet(A, k) = USPGet(B, k)

\* no key occurs twice in the selection
WellFormed(S) == \A i, j \in DOMAIN S : S[i][1] = S[j][1] => i = j

\* C13: following the link of the value that is already active (the value
\* the filled-in selection has for the link's option) leads to a selection
\* whose filled-in form is the current filled-in selection (the same pairs in
\* the same order when no key is repeated), and the server resolves the same
\* variant, or the same absence of one, for it.
C13_IdempotentClick ==
  mounted =>
    \A i \in DOMAIN view.links :
      LET L == view.links[i]
          dest == LinkI18n(L.to, location.pathname)
          destFilled == FilledOf(product, USPParse(dest.search))
      IN  L.value = USPGet(view.filled, L.name) =>
            /\ SameMapping(destFilled, view.filled)
            /\ WellFormed(view.filled) => destFilled = view.filled
            /\ getProductData(product, dest.search) =
                 selectedVariantOf(product, DisplaySelection)

\* the active link was followed: the navigation in flight leads to the
\* filled-in form of the committed selection and to the variant already shown
C13_Witness ==
  /\ mounted
  /\ transition.state = "loading"
  /\ transition.cause = "option"
  /\ USPParse(transition.location.search) = FilledOf(product, CommittedSelection)
  /\ view.filled = FilledOf(product, CommittedSelection)
  /\ productSelectedVariant # NoVariant
  /\ getProductData(product, transition.location.search) = productSelectedVariant
  /\ \E i \in DOMAIN view.links :
       view.links[i].value = USPGet(view.filled, view.links[i].name)

\* the value the variant has for the option named
ValueIn(variant, name) ==
  LET i == CHOOSE i \in DOMAIN variant.selectedOptions :
             variant.selectedOptions[i].name = name
  IN  variant.selectedOptions[i].value

\* C14: an option with exactly one value gets no link (it is not among the
\* selectable controls), yet the filled-in selection has a value for its name
\* (the first variant's when the selection does not name it), every link
\* emitted carries that value, and a variant is resolved only if it has the
\* value the filled-in committed selection gives the option.
C14_SingleValuedOption ==
  mounted =>
    \A o \in DOMAIN product.options :
      LET name == product.options[o].name
      IN  Len(product.options[o].values) = 1 =>
            /\ \A i \in DOMAIN view.links : view.links[i].name # name
            /\ USPHas(view.filled, name)
            /\ ~USPHas(DisplaySelection, name) =>
                 USPGet(view.filled, name) = ValueIn(firstVariant(product), name)
            /\ \A i \in DOMAIN view.links :
                 USPGet(QueryOf(view.links[i].to), name) = USPGet(view.filled, name)
            /\ productSelectedVariant # NoVariant =>
                 ValueIn(productSelectedVariant, name) =
                   USPGet(FilledOf(product, CommittedSelection), name)

\* Material has the one value Wool: after a click on a Color link the
\* committed URL names Material=Wool although no control offers it
C14_Witness ==
  /\ mounted
  /\ product = P2
  /\ transition.state = "idle"
  /\ USPGet(CommittedSelection, <<"Material">>) = <<"Wool">>
  /\ USPGet(CommittedSelection, <<"Color">>) = <<"Navy", " ", "Blue">>
  /\ productSelectedVariant = P2.variants[2]
  /\ view.links # <<>>
  /\ \A i \in DOMAIN view.links :
       /\ view.links[i].name = <<"Color">>
       /\ USPGet(QueryOf(view.links[i].to), <<"Material">>) = <<"Wool">>

\* C18: the filled-in selection has a key for every option name of the first
\* variant, with the first variant's value for each name the selection does
\* not have; for the empty selection it is exactly the first variant's option
\* set, and in the scenario product {} gives (Red, S), {Color: Blue} gives
\* (Blue, S).
C18_DefaultFillComplete ==
  mounted =>
    LET S == DisplaySelection
        fv == firstVariant(product).selectedOptions
    IN  /\ \A i \in DOMAIN fv :
             /\ USPHas(view.filled, fv[i].name)
             /\ ~USPHas(S, fv[i].name) =>
                  USPGet(view.filled, fv[i].name) = fv[i].value
        /\ S = <<>> =>
             view.filled = [i \in DOMAIN fv |-> <<fv[i].name, fv[i].value>>]
        /\ (product = P1 /\ S = <<>>) =>
             view.filled = << <<<<"Color">>, <<"Red">>>>, <<<<"Size">>, <<"S">>>> >>
        /\ (product = P1 /\ S = << <<<<"Color">>, <<"Blue">>>> >>) =>
             view.filled = << <<<<"Color">>, <<"Blue">>>>, <<<<"Size">>, <<"S">>>> >>

\* the form shows the empty query of a pending destination while the
\* committed URL names Color=Blue only: the filled-in selection is (Red, S)
C18_Witness ==
  /\ mounted
  /\ product = P1
  /\ transition.state = "loading"
  /\ DisplaySelection = <<>>
  /\ CommittedSelection = << <<<<"Color">>, <<"Blue">>>> >>
  /\ USPGet(view.filled, <<"Color">>) = <<"Red">>
  /\ USPGet(view.filled, <<"Size">>) = <<"S">>
  /\ Len(view.filled) = 2

\* C20: the variantId of the add-to-cart form is the id of the loader's
\* selectedVariant for the committed URL, or of the first variant when there
\* is none, never one derived from a pending destination: while an option
\* navigation is in flight the controls show the destination selection, and a
\* form posted then carries the variant of the committed selection.
C20_FormVariantCommitted ==
  mounted =>
    /\ productSelectedVariant = getProductData(product, location.search)
    /\ view.variantId =
         (IF productSelectedVariant = NoVariant THEN firstVariant(product).id
          ELSE productSelectedVariant.id)
    /\ (transition.state = "loading" /\ transition.cause = "option") =>
         view.filled = FilledOf(product, USPParse(transition.location.search))
    /\ transition.state = "submitting" =>
         transition.submission.variantId = view.variantId

\* the form was posted while the controls showed a destination selection
\* that resolves to another variant than the one posted
C20_Witness ==
  /\ mounted
  /\ transition.state = "submitting"
  /\ productSelectedVariant # NoVariant
  /\ transition.submission.variantId = productSelectedVariant.id
  /\ selectedVariantOf(product, transition.submission.shown) # NoVariant
  /\ selectedVariantOf(product, transition.submission.shown).id
       # transition.submission.variantId

(***************************************************************************)
(* Claims on the determinism of the resolution.                            *)
(***************************************************************************)
\* a render of the form for product data P and selection S on a page that
\* shares nothing else with the current one: no object of an earlier render,
\* another pathname, no navigation under way
RenderElsewhere(prod, psv, search) ==
  RenderProductForm([EmptyHeap EXCEPT !["current"] = USPParse(search)],
                    [pathname |-> ProductPath("elsewhere"), search |-> search],
                    IdleTransition, prod, psv).view

\* a render for the same P and S as a navigation towards S that is still
\* loading, on the objects the current render left behind
RenderPending(prod, psv, search) ==
  RenderProductForm([heap EXCEPT !["current"] = heap["link"]],
                    location,
                    [state |-> "loading",
                     location |-> [pathname |-> location.pathname, search |-> search],
                     cause |-> "option", submission |-> NoSubmission],
                    prod, psv).view

\* C16: the filled-in selection and the variant the page uses depend on
\* nothing but the product data P and the selection S: a render for the same
\* P and S in any other router state, on any other objects, gives the same
\* filled-in selection and the same variant.
C16_Deterministic ==
  mounted =>
    LET A == RenderElsewhere(product, productSelectedVariant, DisplaySource)
        B == RenderPending(product, productSelectedVariant, DisplaySource)
    IN  /\ A.filled = view.filled
        /\ B.filled = view.filled
        /\ A.variantId = view.variantId
        /\ B.variantId = view.variantId

\* the current render took its selection from a pending destination and ran
\* on objects of earlier renders that hold other selections
C16_Witness ==
  /\ mounted
  /\ transition.state = "loading"
  /\ DisplaySelection # <<>>
  /\ heap["current"] # DisplaySelection
  /\ heap["link"] # <<>>
  /\ productSelectedVariant # NoVariant
  /\ productSelectedVariant # firstVariant(product)
  /\ RenderElsewhere(product, productSelectedVariant, DisplaySource).filled = view.filled

(***************************************************************************)
(* Claims on the calls of one action invocation.                           *)
(***************************************************************************)
\* the commerce calls request r has issued: those answered and the one in
\* flight
Issued(r) ==
  Len(CallsOf(r)) + (IF act[r].pc \in {"create", "update"} THEN 1 ELSE 0)

\* the operation of the call request r is waiting for or was answered first
IssuedOp(r) ==
  IF CallsOf(r) # <<>> THEN CallsOf(r)[1].op
  ELSE IF act[r].pc = "create" THEN "createCart" ELSE "addLineItem"

\* C17: an action invocation issues at most one commerce call; once it has
\* returned or thrown it issued exactly one if the variantId was valid and
\* none if it was not; the call is createCart when the session of the request
\* held no cartId and addLineItem otherwise; a rejected call is the only call
\* of its invocation, which has thrown; and a call is issued only after the
\* body was parsed and validated and the cart id was read from the session.
C17_OneCallPerInvocation ==
  \A r \in Requests :
    /\ Issued(r) <= 1
    /\ act[r].pc \in {"done", "delivered", "failed"} =>
         Issued(r) = (IF Truthy(Submitted(r)) THEN 1 ELSE 0)
    /\ Issued(r) = 1 =>
         /\ IssuedOp(r) =
              (IF CartIdBefore(r) = Undefined THEN "createCart" ELSE "addLineItem")
         /\ act[r].pc \notin {"idle", "reading", "session"}
         /\ Truthy(act[r].variantId)
         /\ act[r].variantId = Submitted(r)
         /\ act[r].cartId = CartIdBefore(r)
    /\ \A i \in DOMAIN CallsOf(r) :
         /\ CallsOf(r)[i].lines = OneLine(Submitted(r))
         /\ ~CallsOf(r)[i].ok =>
              /\ act[r].pc = "failed"
              /\ Len(CallsOf(r)) = 1

\* one invocation's createCart was rejected and it stopped after that call,
\* another one made its single addLineItem call and returned
C17_Witness ==
  \E r, q \in Requests :
    /\ act[r].pc = "failed"
    /\ act[r].error = "createCart"
    /\ Len(CallsOf(r)) = 1
    /\ ~CallsOf(r)[1].ok
    /\ act[q].pc = "delivered"
    /\ Len(CallsOf(q)) = 1
    /\ CallsOf(q)[1].op = "addLineItem"

(***************************************************************************)
(* Claims on the loader and the deferred recommendation.                   *)
(***************************************************************************)
\* the recommendation fetch of invocation l has been started
Started(l) == load[l].recommended \in {"pending", "resolved", "rejected"}

\* C15: a rejected recommendation fetch shows the error placeholder in the
\* panel that awaits it and nothing else: the loader has returned, its
\* response carries the product and shop of the primary fetch unchanged, and a
\* rendered page shows them, whether the recommendation fetch has resolved,
\* was rejected or has not settled.
C15_RejectionContained ==
  \A l \in Loads :
    /\ Started(l) =>
         /\ load[l].pc = "returned"
         /\ load[l].error = "none"
         /\ load[l].response = load[l].primary
         /\ load[l].response.shop = "shop"
         /\ ~load[l].response.product.isNull
         /\ load[l].page.state \in {"none", "rendered"}
    /\ load[l].page.state = "rendered" =>
         /\ load[l].page.product = load[l].primary.product
         /\ load[l].page.shop = load[l].primary.shop
         /\ load[l].page.panel = PanelFor(load[l].recommended)
         /\ load[l].recommended = "rejected" <=> load[l].page.panel = "errorElement"

\* one page shows product and shop with the error placeholder after a
\* rejection, another shows them with the fallback while its fetch is pending
C15_Witness ==
  \E l, k \in Loads :
    /\ load[l].recommended = "rejected"
    /\ load[l].page.state = "rendered"
    /\ load[l].page.panel = "errorElement"
    /\ load[l].page.product.id = "snowboard"
    /\ load[k].recommended = "pending"
    /\ load[k].page.state = "rendered"
    /\ load[k].page.panel = "fallback"

\* C19: the recommendation fetch is started at most once per loader call,
\* only once the primary fetch has resolved with a product that has an
\* identifier, and keyed by that identifier; it is not started when the
\* loader throws or the primary fetch yields no product (the deferred value
\* is then null); and the loader has returned while the fetch is pending.
C19_RecommendationStart ==
  \A l \in Loads :
    /\ load[l].nRecommended = (IF Started(l) THEN 1 ELSE 0)
    /\ Started(l) =>
         /\ load[l].pc = "returned"
         /\ ~load[l].primary.product.isNull
         /\ load[l].primary.product.id # ""
         /\ load[l].recKey = load[l].primary.product.id
         /\ load[l].recKey = ParamText(load[l].params, "handle")
    /\ load[l].pc \in {"idle", "entered", "fetching", "thrown"} =>
         /\ ~Started(l)
         /\ load[l].recommended = "unset"
    /\ (load[l].pc = "returned" /\ load[l].primary.product.isNull) =>
         load[l].recommended = "null"
    /\ (load[l].pc = "returned" /\ load[l].primary.product.id = "") =>
         load[l].recommended = "null"
    /\ load[l].recommended = "pending" =>
         /\ load[l].pc = "returned"
         /\ load[l].response = load[l].primary

\* one loader returned and its page is rendered while the fetch keyed by
\* the product is still pending; another returned null as deferred value
\* because the primary fetch found no product
C19_Witness ==
  \E l, k \in Loads :
    /\ load[l].pc = "returned"
    /\ load[l].recommended = "pending"
    /\ load[l].recKey = "hoodie"
    /\ load[l].page.state = "rendered"
    /\ load[k].pc = "returned"
    /\ load[k].primary.product.isNull
    /\ load[k].recommended = "null"

(***************************************************************************)
(* Claims on the session after a creation race.                            *)
(***************************************************************************)
\* the requests sent without a cart whose createCart response has been
\* delivered to the browser
DeliveredCreators ==
  {r \in Requests : act[r].pc = "delivered" /\ CartIdBefore(r) = Undefined}

\* the cart the session of a cookie refers to
CartOf(c) == SessionGet(getSession(c), "cartId")

\* C21: the browser's session refers to exactly one cart, the one of the
\* Set-Cookie applied last: a delivered response with Set-Cookie replaces the
\* cookie by the one of the cart its action created, no other step changes
\* the cookie, and once the racing first-time actions are all answered the
\* cookie stays; an action sent with the session of a cart adds its line to
\* that cart and changes no other cart, so the cart that lost the race is
\* never written from that session.
C21_RaceLeavesOneCart ==
  [][ /\ \A r \in Requests :
           (act[r].pc = "done" /\ act'[r].pc = "delivered") =>
             IF SetCookieOf(act[r].response) = {} THEN cookie' = cookie
             ELSE /\ cookie' \in SetCookieOf(act[r].response)
                  /\ CartOf(cookie') = CallsOf(r)[1].cartId
                  /\ getSession(cookie') = {<<"cartId", CallsOf(r)[1].cartId>>}
      /\ (\A r \in Requests : act'[r].pc = "delivered" => act[r].pc = "delivered") =>
           cookie' = cookie
      /\ cookie' # NoCookie =>
           \E r \in Requests :
             /\ act'[r].pc = "delivered"
             /\ CartIdBefore(r) = Undefined
             /\ CartOf(cookie') = CallsOf(r)[1].cartId
      /\ (\A q \in Requests :
            (act[q].pc # "idle" /\ CartIdBefore(q) = Undefined) =>
              act[q].pc \in {"delivered", "failed"}) =>
           (cookie # NoCookie => cookie' = cookie)
      /\ \A r \in Requests :
           (act[r].pc # "idle" /\ CartIdBefore(r) # Undefined) =>
             /\ \A i \in DOMAIN CallsOf(r) :
                  /\ CallsOf(r)[i].op = "addLineItem"
                  /\ CallsOf(r)[i].cartId = CartIdBefore(r)
             /\ act'[r] # act[r] =>
                  \A id \in DOMAIN carts :
                    id # CartIdBefore(r) => carts'[id] = carts[id]
    ]_vars

\* two first-time actions raced and both Set-Cookies were applied; a third
\* action sent afterwards added its line to the cart the cookie names, and
\* the other cart still holds only the line of its creator
C21_Witness ==
  \E r1, r2, r3 \in Requests :
    /\ r1 # r2
    /\ {r1, r2} \subseteq DeliveredCreators
    /\ act[r3].pc = "delivered"
    /\ act[r3].reqCookie = cookie
    /\ CartOf(cookie) = CallsOf(r1)[1].cartId
    /\ CallsOf(r3)[1].cartId = CallsOf(r1)[1].cartId
    /\ Len(carts[CallsOf(r1)[1].cartId]) = 2
    /\ carts[CallsOf(r2)[1].cartId] = OneLine(Submitted(r2))
    /\ CallsOf(r1)[1].cartId < CallsOf(r2)[1].cartId

=============================================================================
